---- MODULE Spec2Model ----
(***************************************************************************)
(* Model of the QA-System Streamlit application (streamlit_app.py):        *)
(*   - simple_qa_system, the keyword-overlap answer selection, modelled    *)
(*     on character sequences (a Python str is a sequence of one-character *)
(*     strings);                                                           *)
(*   - the extractors, load_data_from_upload, load_data_from_directory and *)
(*     main, the script that Streamlit re-runs once per user interaction.  *)
(***************************************************************************)
EXTENDS Naturals, Integers, Sequences, FiniteSets, TLC

VARIABLES
  pc,                 \* "idle" | "called" | "returned" : the direct call of simple_qa_system
  arg_document,       \* argument document_text of the call
  arg_question,       \* argument question of the call
  sentences,          \* local sentences (line 116)
  question_words,     \* local question_words (line 119)
  relevant_sentences, \* local relevant_sentences after the sort (lines 120-132)
  answer,             \* value returned by simple_qa_system
  uploaded_file,      \* file_uploader widget value: NoFile or a file record
  document_text,      \* st.session_state.document_text
  documents,          \* st.session_state.documents
  question_input,     \* text_input widget value
  qa_rendered,        \* the Q&A section (and its buttons) was rendered by the last run
  LLAMA_INDEX_AVAILABLE, \* module-level flag set by the import (lines 11-16)
  button,             \* the button whose click triggered the last run ("none" if none)
  extractor_run,      \* which extractor the last run executed ("none" if none)
  extract_raised,     \* an exception escaped the extractor in the last run
  load_ret,           \* <<value>> that load_data_from_upload returned in the last run, or NoCall
  errors,             \* st.error messages of the last run
  warnings,           \* st.warning messages of the last run
  composer_calls      \* simple_qa_system invocations of the last run, as <<document, question>>

vars == <<pc, arg_document, arg_question, sentences, question_words,
          relevant_sentences, answer, uploaded_file, document_text, documents,
          question_input, qa_rendered, LLAMA_INDEX_AVAILABLE, button,
          extractor_run, extract_raised, load_ret, errors, warnings,
          composer_calls>>

qaVars == <<pc, arg_document, arg_question, sentences, question_words,
            relevant_sentences, answer>>

uiVars == <<uploaded_file, document_text, documents, question_input,
            qa_rendered, LLAMA_INDEX_AVAILABLE, button, extractor_run,
            extract_raised, load_ret, errors, warnings, composer_calls>>

\* uploaded_file is None (line 60, line 166)
NoFile == [none |-> TRUE]

\* load_data_from_upload was not called in the run
NoCall == <<>>

----------------------------------------------------------------------------
(* Bounds of the enumerated inputs *)

MaxSentences == 4

MaxQWords == 2

----------------------------------------------------------------------------
(* Python str primitives *)

UpperChars ==
  <<"A","B","C","D","E","F","G","H","I","J","K","L","M","N","O","P","Q","R",
    "S","T","U","V","W","X","Y","Z">>

LowerChars ==
  <<"a","b","c","d","e","f","g","h","i","j","k","l","m","n","o","p","q","r",
    "s","t","u","v","w","x","y","z">>

Whitespace == {" ", "\t", "\n", "\r"}

LowerChar(c) ==
  IF \E i \in DOMAIN UpperChars : UpperChars[i] = c
    THEN LowerChars[CHOOSE i \in DOMAIN UpperChars : UpperChars[i] = c]
    ELSE c

\* a lower() that leaves the case as it is
Lower_Identity(s) == s

\* str.lower()
Lower(s) == [i \in 1..Len(s) |-> LowerChar(s[i])]

\* str.strip()
Strip(s) ==
  LET keep == {i \in 1..Len(s) : s[i] \notin Whitespace}
  IN  IF keep = {} THEN <<>>
      ELSE LET lo == CHOOSE i \in keep : \A j \in keep : i <= j
               hi == CHOOSE i \in keep : \A j \in keep : j <= i
           IN  SubSeq(s, lo, hi)

\* str.split(sep) for a one-character separator: every occurrence cuts,
\* empty pieces are kept
RECURSIVE SplitOn(_, _)
SplitOn(s, sep) ==
  LET hits == {i \in 1..Len(s) : s[i] = sep}
  IN  IF hits = {} THEN <<s>>
      ELSE LET i == CHOOSE h \in hits : \A k \in hits : h <= k
           IN  <<SubSeq(s, 1, i - 1)>> \o SplitOn(SubSeq(s, i + 1, Len(s)), sep)

\* str.split() without arguments: runs of whitespace cut, no empty pieces
RECURSIVE SplitWhitespace(_)
SplitWhitespace(s) ==
  LET t == Strip(s)
      ws == {i \in 1..Len(t) : t[i] \in Whitespace}
  IN  IF t = <<>> THEN <<>>
      ELSE IF ws = {} THEN <<t>>
      ELSE LET i == CHOOSE h \in ws : \A k \in ws : h <= k
           IN  <<SubSeq(t, 1, i - 1)>> \o SplitWhitespace(SubSeq(t, i + 1, Len(t)))

\* sep.join(parts)
RECURSIVE Join(_, _)
Join(parts, sep) ==
  IF parts = <<>> THEN <<>>
  ELSE IF Len(parts) = 1 THEN parts[1]
  ELSE parts[1] \o sep \o Join(Tail(parts), sep)

\* set(list)
ToSet(seq) == {seq[i] : i \in DOMAIN seq}

----------------------------------------------------------------------------
(* String literals of streamlit_app.py *)

PromptMsg ==
  <<"P","l","e","a","s","e"," ","u","p","l","o","a","d"," ","a"," ","d","o",
    "c","u","m","e","n","t"," ","a","n","d"," ","a","s","k"," ","a"," ","q",
    "u","e","s","t","i","o","n",".">>

FallbackMsg ==
  <<"I"," ","c","o","u","l","d","n","'","t"," ","f","i","n","d"," ","s","p",
    "e","c","i","f","i","c"," ","i","n","f","o","r","m","a","t","i","o","n",
    " ","r","e","l","a","t","e","d"," ","t","o"," ","y","o","u","r"," ","q",
    "u","e","s","t","i","o","n"," ","i","n"," ","t","h","e"," ","d","o","c",
    "u","m","e","n","t","."," ","T","r","y"," ","r","e","p","h","r","a","s",
    "i","n","g"," ","y","o","u","r"," ","q","u","e","s","t","i","o","n"," ",
    "o","r"," ","c","h","e","c","k"," ","i","f"," ","t","h","e"," ","d","o",
    "c","u","m","e","n","t"," ","c","o","n","t","a","i","n","s"," ","t","h",
    "e"," ","i","n","f","o","r","m","a","t","i","o","n"," ","y","o","u","'",
    "r","e"," ","l","o","o","k","i","n","g"," ","f","o","r",".">>

QuickQuestionAbout ==
  <<"m","a","i","n"," ","t","o","p","i","c"," ","s","u","b","j","e","c","t",
    " ","a","b","o","u","t">>

QuickQuestionKeyPoints ==
  <<"k","e","y"," ","p","o","i","n","t","s"," ","i","m","p","o","r","t","a",
    "n","t"," ","m","a","i","n"," ","f","i","n","d","i","n","g","s">>

----------------------------------------------------------------------------
(* simple_qa_system *)

TopK == 3

\* line 116: [s.strip() for s in document_text.split('.') if s.strip()]
RECURSIVE StripNonEmpty(_)
StripNonEmpty(pieces) ==
  IF pieces = <<>> THEN <<>>
  ELSE LET s == Strip(Head(pieces))
       IN  (IF s # <<>> THEN <<s>> ELSE <<>>) \o StripNonEmpty(Tail(pieces))

SplitSentences(text) == StripNonEmpty(SplitOn(text, "."))

\* line 119: set(question_lower.split())
QuestionWords(question) == ToSet(SplitWhitespace(Lower(question)))

\* the overlap taken without lower-casing the sentence
CommonWords_CaseSensitive(qwords, sentence) ==
  qwords \cap ToSet(SplitWhitespace(sentence))

\* lines 123-125
CommonWords(qwords, sentence) ==
  qwords \cap ToSet(SplitWhitespace(Lower(sentence)))

\* a loop that scores every sentence
HasOverlap_Always(common) == TRUE

\* line 126: the guard of the division
HasOverlap(common) == Cardinality(common) > 0

\* line 127: len(common_words) / len(question_words), kept as a fraction;
\* den = 0 stands for the ZeroDivisionError
RelevanceScore(common, qwords) ==
  [num |-> Cardinality(common), den |-> Cardinality(qwords)]

\* lines 122-128: the loop over the sentences
RECURSIVE ScoreSentences(_, _)
ScoreSentences(sents, qwords) ==
  IF sents = <<>> THEN <<>>
  ELSE LET sentence == Head(sents)
           common == CommonWords(qwords, sentence)
       IN  (IF HasOverlap(common)
              THEN << <<sentence, RelevanceScore(common, qwords)>> >>
              ELSE <<>>)
           \o ScoreSentences(Tail(sents), qwords)

\* comparison of two scores with cross-multiplication
ScoreGE(a, b) == a.num * b.den >= b.num * a.den

ScoreGT(a, b) == a.num * b.den > b.num * a.den

\* a descending sort that puts an element before its equals
RECURSIVE SortByScoreDesc_Unstable(_)
SortByScoreDesc_Unstable(seq) ==
  IF seq = <<>> THEN <<>>
  ELSE LET n == Len(seq)
           init == SortByScoreDesc_Unstable(SubSeq(seq, 1, n - 1))
           x == seq[n]
           pos == Cardinality({i \in DOMAIN init : ScoreGT(init[i][2], x[2])})
       IN  SubSeq(init, 1, pos) \o <<x>> \o SubSeq(init, pos + 1, Len(init))

\* line 132: list.sort(key=lambda x: x[1], reverse=True); the sort is stable,
\* also with reverse=True
RECURSIVE SortByScoreDesc(_)
SortByScoreDesc(seq) ==
  IF seq = <<>> THEN <<>>
  ELSE LET n == Len(seq)
           init == SortByScoreDesc(SubSeq(seq, 1, n - 1))
           x == seq[n]
           pos == Cardinality({i \in DOMAIN init : ScoreGE(init[i][2], x[2])})
       IN  SubSeq(init, 1, pos) \o <<x>> \o SubSeq(init, pos + 1, Len(init))

\* a selection without the [:3] slice
TopSentences_All(ranked) == [i \in 1..Len(ranked) |-> ranked[i][1]]

\* line 133: [s[0] for s in relevant_sentences[:3]]
TopSentences(ranked) ==
  LET k == IF Len(ranked) < TopK THEN Len(ranked) ELSE TopK
  IN  [i \in 1..k |-> ranked[i][1]]

\* a guard that tests the document only
MissingInput_DocumentOnly(text, question) == text = <<>>

\* line 109: not document_text or not question
MissingInput(text, question) == text = <<>> \/ question = <<>>

\* lines 130-136: the returned string, next to the locals
ComposeAnswer(sents, qwords, ranked) ==
  [sentences |-> sents, question_words |-> qwords,
   relevant_sentences |-> ranked,
   ret |-> IF ranked # <<>>
             THEN Join(TopSentences(ranked), <<".", " ">>) \o <<".">>
             ELSE FallbackMsg]

\* lines 120-132: the scored sentences, sorted
RankSentences(sents, qwords) ==
  ComposeAnswer(sents, qwords, SortByScoreDesc(ScoreSentences(sents, qwords)))

\* lines 107-136; the record holds the locals next to the returned string
simple_qa_system(text, question) ==
  IF MissingInput(text, question)
    THEN [sentences |-> <<>>, question_words |-> {},
          relevant_sentences |-> <<>>, ret |-> PromptMsg]
    ELSE RankSentences(SplitSentences(text), QuestionWords(question))

----------------------------------------------------------------------------
(* Inputs of the direct calls of simple_qa_system *)

SkyDoc ==
  <<"T","h","e"," ","s","k","y"," ","i","s"," ","b","l","u","e","."," ","G",
    "r","a","s","s"," ","i","s"," ","g","r","e","e","n","."," ","W","a","t",
    "e","r"," ","i","s"," ","w","e","t",".">>

SkyQuestion ==
  <<"W","h","a","t"," ","c","o","l","o","r"," ","i","s"," ","g","r","a","s",
    "s","?">>

GrassAnswer ==
  <<"G","r","a","s","s"," ","i","s"," ","g","r","e","e","n",".">>

MammalsDoc ==
  <<"C","a","t","s"," ","a","r","e"," ","m","a","m","m","a","l","s","."," ",
    "D","o","g","s"," ","a","r","e"," ","m","a","m","m","a","l","s",".">>

MammalsQuestion ==
  <<"m","a","m","m","a","l","s">>

EchoQuestion ==
  <<"q","u","e","s","t","i","o","n">>

\* fragments between periods from which the enumerated documents are built
FragmentPool == {<<>>, <<" ", "a">>, <<"A", " ", "b">>, <<"b">>}

\* words from which the enumerated questions are built
QuestionWordPool == {<<"a">>, <<"B">>}

\* questions of whitespace only, with padding, with a run of whitespace, and
\* with a word no enumerated document has
PaddedQuestions ==
  {<<" ">>, <<" ", "a", " ">>, <<"B", " ", "\t", "a">>, <<"c">>}

RECURSIVE SeqsUpTo(_, _)
SeqsUpTo(S, n) ==
  IF n = 0 THEN {<<>>}
  ELSE LET shorter == SeqsUpTo(S, n - 1)
       IN  shorter \cup {Append(s, x) : s \in shorter, x \in S}

EnumeratedDocs ==
  {Join(fs, <<".">>) : fs \in SeqsUpTo(FragmentPool, MaxSentences)}

EnumeratedQuestions ==
  {Join(ws, <<" ">>) : ws \in SeqsUpTo(QuestionWordPool, MaxQWords)}
    \cup PaddedQuestions

ExampleCalls ==
  {<<SkyDoc, SkyQuestion>>, <<MammalsDoc, MammalsQuestion>>,
   <<FallbackMsg, EchoQuestion>>, <<FallbackMsg, <<" ">> >>,
   <<SkyDoc, <<>> >>, << <<>>, SkyQuestion>>, << <<"\n">>, MammalsQuestion>>}

Calls == (EnumeratedDocs \X EnumeratedQuestions) \cup ExampleCalls

----------------------------------------------------------------------------
(* Direct calls of simple_qa_system *)

UiIdle ==
  /\ uploaded_file = NoFile
  /\ document_text = <<>>
  /\ documents = <<>>
  /\ question_input = <<>>
  /\ qa_rendered = FALSE
  /\ LLAMA_INDEX_AVAILABLE = FALSE
  /\ button = "none"
  /\ extractor_run = "none"
  /\ extract_raised = FALSE
  /\ load_ret = NoCall
  /\ errors = <<>>
  /\ warnings = <<>>
  /\ composer_calls = <<>>

InitQA ==
  /\ pc = "called"
  /\ \E c \in Calls : arg_document = c[1] /\ arg_question = c[2]
  /\ sentences = <<>>
  /\ question_words = {}
  /\ relevant_sentences = <<>>
  /\ answer = <<>>
  /\ UiIdle

CallSimpleQA ==
  /\ pc = "called"
  /\ LET r == simple_qa_system(arg_document, arg_question)
     IN  /\ sentences' = r.sentences
         /\ question_words' = r.question_words
         /\ relevant_sentences' = r.relevant_sentences
         /\ answer' = r.ret
  /\ pc' = "returned"
  /\ UNCHANGED <<arg_document, arg_question>>
  /\ UNCHANGED uiVars

NextQA == CallSimpleQA

SpecQA == InitQA /\ [][NextQA]_vars

----------------------------------------------------------------------------
(* Properties of simple_qa_system, checked under SpecQA *)

Returned == pc = "returned"

\* the lower-cased whitespace-delimited tokens of a string
Tokens(s) == ToSet(SplitWhitespace(Lower(s)))

\* the period-split, trimmed, non-empty fragments of a document
SentenceUnits(text) == {Strip(f) : f \in ToSet(SplitOn(text, "."))} \ {<<>>}

\* some sentence unit of the document shares a token with the question
SharesToken(text, question) ==
  \E u \in SentenceUnits(text) : Tokens(u) \cap Tokens(question) # {}

Min(a, b) == IF a < b THEN a ELSE b

\* C1 as stated: the fixed prompt is returned whenever the document is empty
\* or the question is empty after trimming whitespace.
C1_AsStated ==
  (Returned /\ (arg_document = <<>> \/ Strip(arg_question) = <<>>))
    => answer = PromptMsg

\* C1, amended: the fixed prompt is returned whenever the document or the
\* question is the empty string; the question is not trimmed, and a question
\* of whitespace only asked of a non-empty document gets the fallback message.
C1_PromptOnEmptyInput ==
  Returned =>
    /\ (arg_document = <<>> \/ arg_question = <<>>) => answer = PromptMsg
    /\ (arg_document # <<>> /\ arg_question # <<>> /\ Strip(arg_question) = <<>>)
         => answer = FallbackMsg

C1_Witness ==
  /\ Returned
  /\ arg_document # <<>>
  /\ arg_question = <<>>
  /\ answer = PromptMsg

WordWhat == <<"w", "h", "a", "t">>

WordColor == <<"c", "o", "l", "o", "r">>

WordIs == <<"i", "s">>

WordGrass == <<"g", "r", "a", "s", "s">>

WordGrassQ == <<"g", "r", "a", "s", "s", "?">>

SentenceSky == <<"T", "h", "e", " ", "s", "k", "y", " ", "i", "s", " ", "b", "l", "u", "e">>

SentenceGrass == <<"G", "r", "a", "s", "s", " ", "i", "s", " ", "g", "r", "e", "e", "n">>

SentenceWater == <<"W", "a", "t", "e", "r", " ", "i", "s", " ", "w", "e", "t">>

IsSkyCall == Returned /\ arg_document = SkyDoc /\ arg_question = SkyQuestion

\* C2 as stated: for the sky document and "What color is grass?" the question
\* tokens are {what, color, is, grass}, "Grass is green" scores 2/4, the
\* highest of the three sentences, and the answer is "Grass is green.".
C2_AsStated ==
  IsSkyCall =>
    /\ question_words = {WordWhat, WordColor, WordIs, WordGrass}
    /\ relevant_sentences # <<>>
    /\ relevant_sentences[1] = <<SentenceGrass, [num |-> 2, den |-> 4]>>
    /\ answer = GrassAnswer

\* C2, amended: the question tokens are {what, color, is, grass?} (the
\* question mark stays attached), each of the three sentences shares only
\* "is" and scores 1/4, and the answer is the three sentences in document
\* order, "The sky is blue. Grass is green. Water is wet.".
C2_SkyExample ==
  IsSkyCall =>
    /\ question_words = {WordWhat, WordColor, WordIs, WordGrassQ}
    /\ relevant_sentences =
         << <<SentenceSky, [num |-> 1, den |-> 4]>>,
            <<SentenceGrass, [num |-> 1, den |-> 4]>>,
            <<SentenceWater, [num |-> 1, den |-> 4]>> >>
    /\ answer = SkyDoc

C2_Witness == IsSkyCall /\ Len(relevant_sentences) = 3

\* the sentences that share a word with the question, ordered by the number
\* of shared words, the higher first, then by their position in the document
ExpectedOrder ==
  LET overlap == [i \in DOMAIN sentences |->
                    Cardinality(question_words \cap Tokens(sentences[i]))]
      scoring == {i \in DOMAIN sentences : overlap[i] > 0}
      rank == [i \in scoring |->
                 1 + Cardinality({j \in scoring :
                                    \/ overlap[j] > overlap[i]
                                    \/ overlap[j] = overlap[i] /\ j < i})]
  IN  [r \in 1..Cardinality(scoring) |->
         sentences[CHOOSE i \in scoring : rank[i] = r]]

\* C3: the selected sentences appear in descending order of score, sentences
\* of equal score in their document order; "Cats are mammals. Dogs are
\* mammals." asked "mammals" is answered by the document itself.
C3_StableDescendingOrder ==
  Returned =>
    LET expected == ExpectedOrder
    IN  /\ [i \in DOMAIN relevant_sentences |-> relevant_sentences[i][1]]
             = expected
        /\ \A i, j \in DOMAIN relevant_sentences :
             i < j => ScoreGE(relevant_sentences[i][2], relevant_sentences[j][2])
        /\ relevant_sentences # <<>> =>
             answer = Join(SubSeq(expected, 1, Min(TopK, Len(expected))),
                           <<".", " ">>) \o <<".">>
        /\ (arg_document = MammalsDoc /\ arg_question = MammalsQuestion)
             => answer = MammalsDoc

\* a call whose answer has a strict descent, a tie between two different
\* sentences, and an order other than the document's
C3_Witness ==
  /\ Returned
  /\ Len(relevant_sentences) = 3
  /\ ScoreGT(relevant_sentences[1][2], relevant_sentences[2][2])
  /\ relevant_sentences[2][2] = relevant_sentences[3][2]
  /\ relevant_sentences[2][1] # relevant_sentences[3][1]
  /\ sentences[1] # relevant_sentences[1][1]
  /\ answer # PromptMsg /\ answer # FallbackMsg

\* C4: with at least one overlapping sentence the answer is exactly the first
\* min(3, n) ranked sentence units, each a period-split, trimmed, non-empty
\* fragment of the document, joined with ". " and closed by one "."; it holds
\* no more than min(3, n) sentences.
C4_TopThreeJoined ==
  (Returned /\ relevant_sentences # <<>>) =>
    LET n == Len(relevant_sentences)
        k == Min(3, n)
        pieces == SplitOn(answer, ".")
        units == SentenceUnits(arg_document)
    IN  /\ Len(pieces) = k + 1
        /\ pieces[k + 1] = <<>>
        /\ \A i \in 1..k :
             /\ pieces[i] = (IF i = 1 THEN <<>> ELSE <<" ">>)
                              \o relevant_sentences[i][1]
             /\ relevant_sentences[i][1] \in units
        /\ Len(SplitSentences(answer)) <= k

C4_Witness ==
  /\ Returned
  /\ Len(relevant_sentences) > 3
  /\ Len(SplitOn(answer, ".")) = 4

\* C5: every score of an emitted sentence is |question words /\ sentence
\* words| / |question words| and lies in (0, 1]; the division never runs with
\* an empty question word set, and a question of whitespace only scores no
\* sentence.
C5_ScoresInRange ==
  Returned =>
    LET qtokens == Tokens(arg_question)
    IN  /\ \A i \in DOMAIN relevant_sentences :
             LET sc == relevant_sentences[i][2]
             IN  /\ sc.den > 0
                 /\ sc.den = Cardinality(qtokens)
                 /\ sc.num = Cardinality(qtokens
                                           \cap Tokens(relevant_sentences[i][1]))
                 /\ 0 < sc.num /\ sc.num <= sc.den
        /\ qtokens = {} => relevant_sentences = <<>>

\* a question of whitespace only asked of a document that has sentences
C5_Witness ==
  /\ Returned
  /\ arg_question # <<>>
  /\ question_words = {}
  /\ sentences # <<>>
  /\ relevant_sentences = <<>>
  /\ answer = FallbackMsg

\* C6 as stated: for a non-empty document and a non-empty question the
\* fallback message is returned if and only if no sentence unit shares a
\* token with the question.
C6_AsStated ==
  (Returned /\ arg_document # <<>> /\ arg_question # <<>>) =>
    (answer = FallbackMsg <=> ~SharesToken(arg_document, arg_question))

\* C6, amended: for a non-empty document and a non-empty question the
\* fallback message is returned whenever no sentence unit shares a token with
\* the question; whenever some sentence shares a token the result is made
\* only of sentence units of the document, and it differs from the fallback
\* message unless the document itself holds the two sentences of that
\* message as sentence units.
C6_FallbackOrSentences ==
  (Returned /\ arg_document # <<>> /\ arg_question # <<>>) =>
    LET shares == SharesToken(arg_document, arg_question)
        units == SentenceUnits(arg_document)
    IN  /\ ~shares => answer = FallbackMsg
        /\ shares =>
             /\ answer # PromptMsg
             /\ SentenceUnits(answer) \subseteq units
             /\ SentenceUnits(answer) # {}
             /\ answer = FallbackMsg => SentenceUnits(FallbackMsg) \subseteq units

\* a question with words, none of them in a document with sentences
C6_Witness ==
  /\ Returned
  /\ sentences # <<>>
  /\ question_words # {}
  /\ ~SharesToken(arg_document, arg_question)
  /\ answer = FallbackMsg

----------------------------------------------------------------------------
(* Extractors and loaders *)

\* An uploaded file is a record: its name, whether its bytes parse (PDF,
\* DOCX) or decode as UTF-8 (TXT), and the text units a successful parse
\* yields: the pages of a PDF, the paragraphs of a DOCX, the text of a TXT.

\* text += unit + "\n" for every unit (lines 27-29, 39-41)
RECURSIVE ConcatLines(_)
ConcatLines(units) ==
  IF units = <<>> THEN <<>>
  ELSE Head(units) \o <<"\n">> \o ConcatLines(Tail(units))

\* lines 23-33
extract_text_from_pdf(file) ==
  IF file.valid
    THEN [text |-> ConcatLines(file.content), errors |-> <<>>, raised |-> FALSE]
    ELSE [text |-> <<>>, errors |-> <<"Error reading PDF">>, raised |-> FALSE]

\* lines 35-45
extract_text_from_docx(file) ==
  IF file.valid
    THEN [text |-> ConcatLines(file.content), errors |-> <<>>, raised |-> FALSE]
    ELSE [text |-> <<>>, errors |-> <<"Error reading DOCX">>, raised |-> FALSE]

\* a TXT extractor without the try/except
extract_text_from_txt_NoCatch(file) ==
  IF file.valid
    THEN [text |-> Join(file.content, <<>>), errors |-> <<>>, raised |-> FALSE]
    ELSE [text |-> <<>>, errors |-> <<>>, raised |-> TRUE]

\* lines 47-53: file.read().decode('utf-8') inside try/except Exception
extract_text_from_txt(file) ==
  IF file.valid
    THEN [text |-> Join(file.content, <<>>), errors |-> <<>>, raised |-> FALSE]
    ELSE [text |-> <<>>, errors |-> <<"Error reading TXT">>, raised |-> FALSE]

\* line 63: uploaded_file.name.split('.')[-1].lower()
FileExtension(name) ==
  LET parts == SplitOn(name, ".")
  IN  Lower(parts[Len(parts)])

ExtPdf == <<"p", "d", "f">>

ExtDocx == <<"d", "o", "c", "x">>

ExtTxt == <<"t", "x", "t">>

\* lines 78-81: the outer except of load_data_from_upload
CatchLoadError(r, which) ==
  IF r.raised
    THEN [ret |-> <<>>, errors |-> r.errors \o <<"Error loading data">>,
          extractor |-> which, raised |-> TRUE]
    ELSE [ret |-> r.text, errors |-> r.errors, extractor |-> which,
          raised |-> FALSE]

\* a loader that reads every unknown extension as text
load_data_from_upload_ElseTxt(file) ==
  LET file_extension == FileExtension(file.name)
  IN  IF file_extension = ExtPdf
        THEN CatchLoadError(extract_text_from_pdf(file), "pdf")
      ELSE IF file_extension = ExtDocx
        THEN CatchLoadError(extract_text_from_docx(file), "docx")
      ELSE CatchLoadError(extract_text_from_txt(file), "txt")

\* lines 55-81, for uploaded_file other than None
load_data_from_upload(file) ==
  LET file_extension == FileExtension(file.name)
  IN  IF file_extension = ExtPdf
        THEN CatchLoadError(extract_text_from_pdf(file), "pdf")
      ELSE IF file_extension = ExtDocx
        THEN CatchLoadError(extract_text_from_docx(file), "docx")
      ELSE IF file_extension = ExtTxt
        THEN CatchLoadError(extract_text_from_txt(file), "txt")
      ELSE [ret |-> <<>>, errors |-> <<"Unsupported file format">>,
            extractor |-> "none", raised |-> FALSE]

\* lines 83-105; env is the state of the file system and of the reader at
\* the call: the directory exists, the reader fails, the texts of its files
load_data_from_directory(available, env) ==
  IF ~available
    THEN [documents |-> <<>>, errors |-> <<"LlamaIndex not available">>,
          warnings |-> <<>>]
  ELSE IF ~env.exists
    THEN [documents |-> <<>>, errors |-> <<>>,
          warnings |-> <<"Created directory">>]
  ELSE IF env.fails
    THEN [documents |-> <<>>, errors |-> <<"Error loading from directory">>,
          warnings |-> <<>>]
  ELSE [documents |-> env.texts, errors |-> <<>>, warnings |-> <<>>]

----------------------------------------------------------------------------
(* main: one run of the script *)

\* an upload tab that stores the extracted text only when it is not empty
UploadStep_KeepOnEmpty(file, session_text) ==
  IF file # NoFile
    THEN LET r == load_data_from_upload(file)
         IN  [document_text |-> IF r.ret # <<>> THEN r.ret ELSE session_text,
              load_ret |-> <<r.ret>>, errors |-> r.errors,
              extractor |-> r.extractor, raised |-> r.raised]
    ELSE [document_text |-> session_text, load_ret |-> NoCall, errors |-> <<>>,
          extractor |-> "none", raised |-> FALSE]

\* lines 166-169: the upload tab
UploadStep(file, session_text) ==
  IF file # NoFile
    THEN LET r == load_data_from_upload(file)
         IN  [document_text |-> r.ret, load_ret |-> <<r.ret>>, errors |-> r.errors,
              extractor |-> r.extractor, raised |-> r.raised]
    ELSE [document_text |-> session_text, load_ret |-> NoCall, errors |-> <<>>,
          extractor |-> "none", raised |-> FALSE]

\* lines 184-195: the directory tab
DirectoryStep(pressed, available, env, session_text, session_documents) ==
  IF pressed
    THEN LET r == load_data_from_directory(available, env)
         IN  IF r.documents # <<>>
               THEN [document_text |-> Join(r.documents, <<"\n", "\n">>),
                     documents |-> r.documents, errors |-> r.errors,
                     warnings |-> r.warnings]
               ELSE [document_text |-> session_text,
                     documents |-> r.documents, errors |-> r.errors,
                     warnings |-> r.warnings \o <<"No documents found">>]
    ELSE [document_text |-> session_text, documents |-> session_documents,
          errors |-> <<>>, warnings |-> <<>>]

\* a Q&A section whose 'Get Answer' does not test the question
AskedQuestions_NoQuestionTest(question, btn) ==
  IF btn = "get_answer" THEN <<question>>
  ELSE IF btn = "about" THEN <<QuickQuestionAbout>>
  ELSE IF btn = "key_points" THEN <<QuickQuestionKeyPoints>>
  ELSE <<>>

\* lines 203-225: the questions the pressed button hands to simple_qa_system
AskedQuestions(question, btn) ==
  IF btn = "get_answer"
    THEN IF question # <<>> THEN <<question>> ELSE <<>>
  ELSE IF btn = "about" THEN <<QuickQuestionAbout>>
  ELSE IF btn = "key_points" THEN <<QuickQuestionKeyPoints>>
  ELSE <<>>

\* lines 206, 219, 224: the invocations of simple_qa_system and the answer
\* written to the page
AnswerQuestions(session_text, asked) ==
  [calls |-> [i \in DOMAIN asked |-> <<session_text, asked[i]>>],
   answer |-> IF asked = <<>> THEN <<>>
              ELSE simple_qa_system(session_text, asked[1]).ret]

\* lines 198-225: the Q&A section
QAStep(session_text, question, btn) ==
  IF session_text # <<>>
    THEN [rendered |-> TRUE,
          asked |-> AnswerQuestions(session_text, AskedQuestions(question, btn)),
          warnings |-> IF btn = "get_answer" /\ question = <<>>
                         THEN <<"Please enter a question.">> ELSE <<>>]
    ELSE [rendered |-> FALSE, asked |-> [calls |-> <<>>, answer |-> <<>>],
          warnings |-> <<>>]

\* the session state, the widget values and the page after the run
EndOfRun(file, question, btn, up, dir, qa) ==
  /\ uploaded_file' = file
  /\ button' = btn
  /\ document_text' = dir.document_text
  /\ documents' = dir.documents
  /\ load_ret' = up.load_ret
  /\ extractor_run' = up.extractor
  /\ extract_raised' = up.raised
  /\ errors' = up.errors \o dir.errors
  /\ warnings' = dir.warnings \o qa.warnings
  /\ qa_rendered' = qa.rendered
  /\ composer_calls' = qa.asked.calls
  /\ answer' = qa.asked.answer
  \* a text input that a run does not render loses its value
  /\ question_input' = IF qa.rendered THEN question ELSE <<>>
  /\ UNCHANGED <<LLAMA_INDEX_AVAILABLE, pc, arg_document, arg_question,
                 sentences, question_words, relevant_sentences>>

\* lines 198-277, after the two tabs
AfterDirectoryTab(file, question, btn, up, dir) ==
  EndOfRun(file, question, btn, up, dir,
           QAStep(dir.document_text, question, btn))

\* lines 181-277, after the upload tab
AfterUploadTab(file, question, btn, env, up) ==
  AfterDirectoryTab(file, question, btn, up,
                    DirectoryStep(btn = "load_dir", LLAMA_INDEX_AVAILABLE, env,
                                  up.document_text, documents))

\* lines 138-277: Streamlit runs main once per interaction; file is the
\* value of the uploader, question that of the text input, btn the button
\* whose click triggered the run (st.button is True only in that run), env
\* the directory the run would read
main(file, question, btn, env) ==
  AfterUploadTab(file, question, btn, env, UploadStep(file, document_text))

----------------------------------------------------------------------------
(* The user's interactions *)

\* Names of the uploaded files. The type list of st.file_uploader (line 162)
\* is a filter of the page; load_data_from_upload tests the extension itself
\* (lines 63-73), so names with other extensions are handed to it as well.
PdfName == <<"a", ".", "p", "d", "f">>

UpperPdfName == <<"b", ".", "P", "D", "F">>

DocxName == <<"a", ".", "d", "o", "c", "x">>

TxtName == <<"a", ".", "t", "x", "t">>

XyzName == <<"a", ".", "x", "y", "z">>

TxtXyzName == <<"a", ".", "t", "x", "t", ".", "x", "y", "z">>

FileNames == {PdfName, UpperPdfName, DocxName, TxtName, XyzName, TxtXyzName}

UploadUnit1 == <<"a", " ", "b", ".">>

UploadUnit2 == <<"b">>

FileContents == {<<>>, <<UploadUnit1>>, <<UploadUnit1, UploadUnit2>>}

Files ==
  [name : FileNames, valid : {TRUE}, content : FileContents]
    \cup [name : FileNames, valid : {FALSE}, content : {<<>>}]

DirText1 == <<"A", ".">>

DirText2 == <<"b", " ", "a">>

DirEnvs ==
  [exists : {TRUE}, fails : {FALSE},
   texts : {<<>>, << <<>> >>, <<DirText1>>, <<DirText1, DirText2>>}]
    \cup {[exists |-> FALSE, fails |-> FALSE, texts |-> <<>>],
          [exists |-> TRUE, fails |-> TRUE, texts |-> <<DirText1>>]}

NoEnv == [exists |-> TRUE, fails |-> FALSE, texts |-> <<>>]

TypedQuestions == {<<>>, <<" ">>, <<"a">>, <<"b", " ", "A">>}

Init ==
  /\ pc = "idle"
  /\ arg_document = <<>>
  /\ arg_question = <<>>
  /\ sentences = <<>>
  /\ question_words = {}
  /\ relevant_sentences = <<>>
  /\ answer = <<>>
  /\ uploaded_file = NoFile
  /\ document_text = <<>>
  /\ documents = <<>>
  /\ question_input = <<>>
  /\ qa_rendered = FALSE
  /\ LLAMA_INDEX_AVAILABLE \in BOOLEAN
  /\ button = "none"
  /\ extractor_run = "none"
  /\ extract_raised = FALSE
  /\ load_ret = NoCall
  /\ errors = <<>>
  /\ warnings = <<>>
  /\ composer_calls = <<>>

UploadFile == \E f \in Files : main(f, question_input, "none", NoEnv)

RemoveFile ==
  /\ uploaded_file # NoFile
  /\ main(NoFile, question_input, "none", NoEnv)

EnterQuestion ==
  /\ qa_rendered
  /\ \E q \in TypedQuestions : main(uploaded_file, q, "none", NoEnv)

ClickLoadFromDirectory ==
  \E env \in DirEnvs : main(uploaded_file, question_input, "load_dir", env)

ClickGetAnswer ==
  /\ qa_rendered
  /\ main(uploaded_file, question_input, "get_answer", NoEnv)

ClickAbout ==
  /\ qa_rendered
  /\ main(uploaded_file, question_input, "about", NoEnv)

ClickKeyPoints ==
  /\ qa_rendered
  /\ main(uploaded_file, question_input, "key_points", NoEnv)

Next ==
  \/ UploadFile
  \/ RemoveFile
  \/ EnterQuestion
  \/ ClickLoadFromDirectory
  \/ ClickGetAnswer
  \/ ClickAbout
  \/ ClickKeyPoints

Spec == Init /\ [][Next]_vars

----------------------------------------------------------------------------
(* Properties of the extractors and of main, checked under Spec *)

HasUpload == uploaded_file # NoFile

SupportedExtensions == {ExtPdf, ExtDocx, ExtTxt}

UploadExtension == FileExtension(uploaded_file.name)

\* the value every extractor returns when its parser fails (lines 33, 45, 53)
EmptyDocument == <<>>

ParserFailureMessages ==
  {"Error reading PDF", "Error reading DOCX", "Error reading TXT"}

\* the first st.error message of the run, "" if there is none
FirstError == IF errors = <<>> THEN "" ELSE Head(errors)

InvalidTxtUpload ==
  HasUpload /\ UploadExtension = ExtTxt /\ ~uploaded_file.valid

\* C7 as stated: a TXT upload that is not valid UTF-8 fails with an error
\* that propagates to the caller of the extractor and is not replaced by a
\* (possibly empty) Document.
C7_AsStated ==
  InvalidTxtUpload => (extract_raised /\ load_ret # <<EmptyDocument>>)

\* C7, amended: a TXT upload that is not valid UTF-8 does not propagate an
\* error: extract_text_from_txt catches the decoding failure, reports it with
\* st.error("Error reading TXT: ...") and returns the empty Document, which
\* load_data_from_upload returns to main.
C7_DecodingErrorCaught ==
  InvalidTxtUpload =>
    /\ extractor_run = "txt"
    /\ ~extract_raised
    /\ load_ret = <<EmptyDocument>>
    /\ FirstError = "Error reading TXT"
    /\ "Error loading data" \notin ToSet(errors)
    /\ button # "load_dir" => (document_text = EmptyDocument /\ ~qa_rendered)

C7_Witness ==
  /\ InvalidTxtUpload
  /\ load_ret = <<EmptyDocument>>
  /\ errors = <<"Error reading TXT">>

UnsupportedUpload == HasUpload /\ UploadExtension \notin SupportedExtensions

\* C8 as stated: an upload with an extension other than pdf, docx, txt yields
\* an UnsupportedFormat outcome reported to the caller that differs from the
\* outcome of a parser failure, runs no extractor, produces no Document, and
\* the Composer is never invoked for it.
C8_AsStated ==
  UnsupportedUpload =>
    /\ FirstError = "Unsupported file format"
    /\ extractor_run = "none"
    /\ load_ret # <<EmptyDocument>>
    /\ composer_calls = <<>>

\* C8, amended: an upload with an extension other than pdf, docx, txt makes
\* load_data_from_upload show st.error("Unsupported file format"), a message
\* no parser failure shows, and return the empty Document, the same value a
\* parser failure returns; no extractor is run, and simple_qa_system is never
\* invoked in a run that has this upload.
C8_UnsupportedFormat ==
  /\ UnsupportedUpload =>
       /\ FirstError = "Unsupported file format"
       /\ extractor_run = "none"
       /\ ~extract_raised
       /\ load_ret = <<EmptyDocument>>
       /\ composer_calls = <<>>
       /\ button # "load_dir" => (document_text = EmptyDocument /\ ~qa_rendered)
  /\ (HasUpload /\ ~UnsupportedUpload) =>
       /\ "Unsupported file format" \notin ToSet(errors)
       /\ (load_ret = <<EmptyDocument>> /\ ~uploaded_file.valid)
            => FirstError \in ParserFailureMessages

\* an unsupported upload in a run that still renders the Q&A section
C8_Witness ==
  /\ UnsupportedUpload
  /\ uploaded_file.valid
  /\ uploaded_file.content # <<>>
  /\ qa_rendered
  /\ load_ret = <<EmptyDocument>>

\* C9: simple_qa_system is invoked only with a non-empty session document
\* and a non-empty question; when the upload's extraction returned the empty
\* Document the run renders the Q&A section only if a directory load of the
\* same run supplied non-empty text.
C9_ComposerInputsNonEmpty ==
  /\ \A i \in DOMAIN composer_calls :
       /\ composer_calls[i][1] # <<>>
       /\ composer_calls[i][2] # <<>>
       /\ composer_calls[i][1] = document_text
  /\ composer_calls # <<>> => qa_rendered
  /\ qa_rendered <=> document_text # <<>>
  /\ (HasUpload /\ load_ret = <<EmptyDocument>> /\ qa_rendered) =>
       /\ button = "load_dir"
       /\ documents # <<>>
       /\ document_text = Join(documents, <<"\n", "\n">>)
       /\ composer_calls = <<>>

\* an upload whose parser failed, in the run of a directory load that
\* supplied text: the Q&A section is rendered over the directory text
C9_Witness ==
  /\ HasUpload
  /\ UploadExtension \in SupportedExtensions
  /\ ~uploaded_file.valid
  /\ load_ret = <<EmptyDocument>>
  /\ button = "load_dir"
  /\ qa_rendered
  /\ document_text # <<>>

\* C10: a run with an uploaded file first overwrites document_text with the
\* upload's extracted text; text loaded from the directory survives only the
\* run of the 'Load from Directory' click, and a later run with the upload
\* still present answers against the upload's text, or hides the Q&A section
\* if that text is empty.
C10_UploadOverwritesDirectoryText ==
  HasUpload =>
    /\ Len(load_ret) = 1
    /\ button # "load_dir" =>
         /\ document_text = load_ret[1]
         /\ load_ret[1] = <<>> => (~qa_rendered /\ composer_calls = <<>>)
    /\ \A i \in DOMAIN composer_calls : composer_calls[i][1] = load_ret[1]

\* an answer given against the upload while other directory text was loaded
\* earlier in the session
C10_Witness ==
  /\ HasUpload
  /\ composer_calls # <<>>
  /\ documents # <<>>
  /\ Join(documents, <<"\n", "\n">>) # <<>>
  /\ Join(documents, <<"\n", "\n">>) # composer_calls[1][1]
  /\ composer_calls[1][1] = load_ret[1]

====
